---- MODULE Spec2Model ----
(***************************************************************************)
(* A model of the perm library (src/src/lib.rs): permutations of [0,N) as  *)
(* a Table and as a CycleDecomposition, the group operations on tables,    *)
(* the orbit traversal that builds a decomposition, the reconstruction of  *)
(* a table from a decomposition, cycle iteration and the cycle type.       *)
(*                                                                         *)
(* Rust arrays are modelled as functions with domain 0..N-1, the SmallVec  *)
(* `starts` as a sequence (so starts[k] of the source is starts[k+1]       *)
(* here), and a slice as a sequence.  A panic is the terminal position     *)
(* pc = "panic".                                                           *)
(***************************************************************************)
EXTENDS Integers, Sequences, FiniteSets

\* Largest value of the const generic N that is explored.
MaxN == 4

VARIABLES
    N,                  \* the const generic parameter of Table<N>
    a,                  \* a Table<N> owned by the caller
    b,                  \* a second Table<N> owned by the caller
    d,                  \* a CycleDecomposition<N> owned by the caller
    pc,                 \* position: "idle", "find", "walk", "built", "panic"
    i,                  \* From<&Table>: write cursor into enumeration
    j,                  \* From<&Table>: the element being walked
    next_unused_index,  \* From<&Table>: the seed of the current cycle
    enumeration,        \* From<&Table>: local buffer
    starts,             \* From<&Table>: local SmallVec
    used,               \* From<&Table>: visited markers
    last                \* the last completed call: its name and operand/result

vars == <<N, a, b, d, pc, i, j, next_unused_index, enumeration, starts, used, last>>

Idx == 0 .. (N - 1)

\* [0; N]
Zeros == [k \in Idx |-> 0]

\* [false; N]
NoneUsed == [k \in Idx |-> FALSE]

\* A CycleDecomposition value that holds nothing yet (no decomposition alive).
NoDecomposition == [enumeration |-> <<>>, starts |-> <<>>]

-----------------------------------------------------------------------------
(* Table *)

\* Table::identity
identity == [k \in Idx |-> k]

\* (the modulo of cycle forgotten)
cycle_noWrap == [k \in Idx |-> k + 1]

\* Table::cycle
cycle == [k \in Idx |-> (k + 1 + N) % N]

\* Action<usize>::act
act(t, element) == t[element % N]

RECURSIVE invertLoop(_, _, _)
invertLoop(self, t, k) ==
    IF k >= N THEN t
    ELSE invertLoop(self, [t EXCEPT ![self[k]] = k], k + 1)

\* (invert writing t.table[i] = self.table[i])
invert_noIndirection(self) == [k \in Idx |-> self[k]]

\* Table::invert
invert(self) == invertLoop(self, identity, 0)

\* The guard of Table::swap
swapPanics(x, y) == x >= N \/ y >= N

\* (swap without the temporary: t[x] = t[y]; t[y] = t[x])
swap_noTemp(x, y) ==
    LET t0 == identity
        t1 == [t0 EXCEPT ![x] = t0[y]]
    IN  [t1 EXCEPT ![y] = t1[x]]

\* Table::swap, past its guard
swap(x, y) ==
    LET t0   == identity
        temp == t0[x]
        t1   == [t0 EXCEPT ![x] = t0[y]]
    IN  [t1 EXCEPT ![y] = temp]

\* (mul composing left to right)
mul_leftToRight(self, rhs) == [k \in Idx |-> rhs[self[k]]]

\* Mul::mul
mul(self, rhs) == [k \in Idx |-> self[rhs[k]]]

-----------------------------------------------------------------------------
(* CycleIter, Cycle *)

\* CycleIter::next with self.cycle = c on entry: the slice it yields.
CycleIterNext(dec, c) ==
    LET right_endpoint == IF c + 1 >= Len(dec.starts) THEN N
                          ELSE dec.starts[c + 2]
        left == dec.starts[c + 1]
    IN  [m \in 1 .. (right_endpoint - left) |-> dec.enumeration[left + m - 1]]

\* The cycles yielded by iterating &CycleDecomposition, in order.
Cycles(dec) == [c \in 1 .. Len(dec.starts) |-> CycleIterNext(dec, c - 1)]

-----------------------------------------------------------------------------
(* From<&CycleDecomposition> for Table *)

\* (the zip without skip(1))
zipSuccessor_noSkip(cycle_slice, m) == cycle_slice[m]

\* The successor paired with position m by zip(iter, iter.cycle().skip(1)).
zipSuccessor(cycle_slice, m) == cycle_slice[(m % Len(cycle_slice)) + 1]

RECURSIVE zipLoop(_, _, _)
zipLoop(table, cycle_slice, m) ==
    IF m > Len(cycle_slice) THEN table
    ELSE zipLoop([table EXCEPT ![cycle_slice[m]] = zipSuccessor(cycle_slice, m)],
                 cycle_slice, m + 1)

RECURSIVE tableFromLoop(_, _, _)
tableFromLoop(table, cycles, c) ==
    IF c >= Len(cycles.starts) THEN table
    ELSE tableFromLoop(zipLoop(table, CycleIterNext(cycles, c), 1), cycles, c + 1)

\* impl From<&CycleDecomposition<N>> for Table<N>
tableFrom(cycles) == tableFromLoop(Zeros, cycles, 0)

-----------------------------------------------------------------------------
(* CycleDecomposition::cycle_type *)

\* (the counter assigned instead of incremented)
cycleTypeBump_assign(ct, len) == [ct EXCEPT ![len - 1] = 1]

\* cycle_type[cycle.len() - 1] += 1
cycleTypeBump(ct, len) == [ct EXCEPT ![len - 1] = @ + 1]

RECURSIVE cycleTypeLoop(_, _, _)
cycleTypeLoop(ct, dec, c) ==
    IF c >= Len(dec.starts) THEN ct
    ELSE cycleTypeLoop(cycleTypeBump(ct, Len(CycleIterNext(dec, c))), dec, c + 1)

\* CycleDecomposition::cycle_type
cycle_type(dec) == cycleTypeLoop(Zeros, dec, 0)

-----------------------------------------------------------------------------
(* From<&Table> for CycleDecomposition: helpers of the traversal *)

\* (the find without its negation)
HasUnused_inverted(u) == \E k \in Idx : u[k]

\* used.iter().enumerate().find(|(_i, e)| !*e): is there an unused index
HasUnused(u) == \E k \in Idx : ~u[k]

\* ... and the first one
FirstUnused(u) == CHOOSE k \in Idx : ~u[k] /\ \A l \in Idx : l < k => u[l]

\* (the marking forgotten)
markUsed_forgotten(u, jj) == u

\* used[j] = true
markUsed(u, jj) == [u EXCEPT ![jj] = TRUE]

\* the value written to enumeration[i] when the walk stands at jj
walkWrite(table, jj) == table[jj]

\* the element the walk moves to from jj
walkNext(table, jj) == table[jj]

-----------------------------------------------------------------------------
(* The state machine *)

Locals0 ==
    /\ i = 0 /\ j = 0 /\ next_unused_index = 0
    /\ enumeration = <<>> /\ starts = <<>> /\ used = <<>>

Init ==
    /\ N \in 0 .. MaxN
    /\ a = identity
    /\ b = identity
    /\ d = NoDecomposition
    /\ pc = "idle"
    /\ Locals0
    /\ last = [name |-> "identity", val |-> <<>>]

LocalsUnchanged == UNCHANGED <<i, j, next_unused_index, enumeration, starts, used>>

\* let a = Table::identity();
Identity ==
    /\ pc = "idle"
    /\ a' = identity
    /\ last' = [name |-> "identity", val |-> <<>>]
    /\ UNCHANGED <<N, b, d, pc>> /\ LocalsUnchanged

\* let a = Table::cycle();
Cycle ==
    /\ pc = "idle"
    /\ a' = cycle
    /\ last' = [name |-> "cycle", val |-> <<>>]
    /\ UNCHANGED <<N, b, d, pc>> /\ LocalsUnchanged

\* let a = Table::swap(x, y);
Swap(x, y) ==
    /\ pc = "idle"
    /\ last' = [name |-> "swap", val |-> <<x, y>>]
    /\ IF swapPanics(x, y)
       THEN pc' = "panic" /\ UNCHANGED a
       ELSE pc' = pc /\ a' = swap(x, y)
    /\ UNCHANGED <<N, b, d>> /\ LocalsUnchanged

\* let a = a * b.clone();
Mul ==
    /\ pc = "idle"
    /\ a' = mul(a, b)
    /\ last' = [name |-> "mul", val |-> a]
    /\ UNCHANGED <<N, b, d, pc>> /\ LocalsUnchanged

\* let a = a.invert();
Invert ==
    /\ pc = "idle"
    /\ a' = invert(a)
    /\ last' = [name |-> "invert", val |-> a]
    /\ UNCHANGED <<N, b, d, pc>> /\ LocalsUnchanged

\* let b = a.clone();
Clone ==
    /\ pc = "idle"
    /\ b' = a
    /\ last' = [name |-> "clone", val |-> <<>>]
    /\ UNCHANGED <<N, a, d, pc>> /\ LocalsUnchanged

\* let d: CycleDecomposition<N> = (&a).into();  -- entry, lines 314-322
FromTableBegin ==
    /\ pc = "idle"
    /\ i' = 0
    /\ enumeration' = Zeros
    /\ starts' = <<>>
    /\ used' = NoneUsed
    /\ pc' = "find"
    /\ UNCHANGED <<N, a, b, d, j, next_unused_index, last>>

\* the head of the outer loop, lines 323-326 and 336-344
FindSeed ==
    /\ pc = "find"
    /\ IF HasUnused(used)
       THEN /\ next_unused_index' = FirstUnused(used)
            /\ j' = FirstUnused(used)
            /\ starts' = Append(starts, i)
            /\ pc' = "walk"
            /\ UNCHANGED <<d, last>>
       ELSE /\ d' = [enumeration |-> enumeration, starts |-> starts]
            /\ last' = [name |-> "from_table", val |-> <<>>]
            /\ pc' = "built"
            /\ UNCHANGED <<next_unused_index, j, starts>>
    /\ UNCHANGED <<N, a, b, i, enumeration, used>>

\* one iteration of the inner loop, lines 327-335; an index past the end of
\* enumeration is a bounds-check panic
WalkStep ==
    /\ pc = "walk"
    /\ IF i >= N
       THEN /\ pc' = "panic"
            /\ used' = markUsed(used, j)
            /\ UNCHANGED <<enumeration, i, j>>
       ELSE /\ used' = markUsed(used, j)
            /\ enumeration' = [enumeration EXCEPT ![i] = walkWrite(a, j)]
            /\ i' = i + 1
            /\ j' = walkNext(a, j)
            /\ pc' = IF walkNext(a, j) = next_unused_index THEN "find" ELSE "walk"
    /\ UNCHANGED <<N, a, b, d, next_unused_index, starts, last>>

\* let a: Table<N> = (&d).into();
ToTable ==
    /\ pc = "built"
    /\ a' = tableFrom(d)
    /\ last' = [name |-> "to_table", val |-> a]
    /\ UNCHANGED <<N, b, d, pc>> /\ LocalsUnchanged

\* let ct = d.cycle_type();
CycleType ==
    /\ pc = "built"
    /\ last' = [name |-> "cycle_type", val |-> cycle_type(d)]
    /\ UNCHANGED <<N, a, b, d, pc>> /\ LocalsUnchanged

\* d.normalize();  -- todo!() panics
Normalize ==
    /\ pc = "built"
    /\ pc' = "panic"
    /\ last' = [name |-> "normalize", val |-> <<>>]
    /\ UNCHANGED <<N, a, b, d>> /\ LocalsUnchanged

\* d goes out of scope
Drop ==
    /\ pc = "built"
    /\ pc' = "idle"
    /\ d' = NoDecomposition
    /\ i' = 0 /\ j' = 0 /\ next_unused_index' = 0
    /\ enumeration' = <<>> /\ starts' = <<>> /\ used' = <<>>
    /\ last' = [name |-> "drop", val |-> <<>>]
    /\ UNCHANGED <<N, a, b>>

Next ==
    \/ Identity
    \/ Cycle
    \/ \E x, y \in 0 .. MaxN : Swap(x, y)
    \/ Mul
    \/ Invert
    \/ Clone
    \/ FromTableBegin
    \/ FindSeed
    \/ WalkStep
    \/ ToTable
    \/ CycleType
    \/ Normalize
    \/ Drop

Spec == Init /\ [][Next]_vars

\* The traversal is straight-line sequential code: once entered it keeps running.
FairSpec == Spec /\ WF_vars(FindSeed) /\ WF_vars(WalkStep)

-----------------------------------------------------------------------------
(* Vocabulary of the properties *)

\* Largest element handed to act in the properties (elements >= N included).
MaxElement == 9

IsBijection(t) ==
    /\ DOMAIN t = Idx
    /\ \A v \in Idx : Cardinality({k \in Idx : t[k] = v}) = 1

RECURSIVE Iterate(_, _, _)
Iterate(t, x, m) == IF m = 0 THEN x ELSE Iterate(t, t[x], m - 1)

\* The orbit of x under t, and the cycles of t as sets of elements.
Orbit(t, x) == {Iterate(t, x, m) : m \in 0 .. N}
NumCyclesOfLength(t, len) ==
    Cardinality({o \in {Orbit(t, x) : x \in Idx} : Cardinality(o) = len})

RECURSIVE WeightedSum(_, _)
WeightedSum(ct, k) == IF k >= N THEN 0 ELSE (k + 1) * ct[k] + WeightedSum(ct, k + 1)

RECURSIVE SumLen(_, _)
SumLen(cs, c) == IF c > Len(cs) THEN 0 ELSE Len(cs[c]) + SumLen(cs, c + 1)

Elements(s) == {s[m] : m \in 1 .. Len(s)}
Max(S) == CHOOSE x \in S : \A y \in S : y <= x
Min(S) == CHOOSE x \in S : \A y \in S : x <= y

NonIdentity(t) == \E k \in Idx : t[k] # k

-----------------------------------------------------------------------------
\* C1: converting a table to a CycleDecomposition and the decomposition back
\* to a Table yields the table one started from, fixed points included.
C1_RoundTrip == last.name = "to_table" => a = last.val

C1_Witness ==
    /\ last.name = "to_table"
    /\ \E x \in Idx : last.val[x] = x
    /\ \E x \in Idx : last.val[x] # x /\ last.val[last.val[x]] # x

\* C2: composition is right to left and compatible with the action:
\* (T * U).act(x) = T.act(U.act(x)) for every x, x >= N included, and
\* (T * U)[k] = T[U[k]] for every k in [0,N), for N >= 1.
C2_ComposeAct ==
    (last.name = "mul" /\ N >= 1) =>
        /\ \A x \in 0 .. MaxElement : act(a, x) = act(last.val, act(b, x))
        /\ \A k \in Idx : a[k] = last.val[b[k]]

C2_Witness ==
    /\ last.name = "mul"
    /\ N >= 3 /\ N <= MaxElement
    /\ \E k \in Idx : last.val[b[k]] # b[last.val[k]]

\* C3: invert yields the group inverse: invert(t)[t[k]] = k for every k,
\* t * invert(t) is the identity and invert(invert(t)) = t.
C3_InvertInverse ==
    last.name = "invert" =>
        /\ \A k \in Idx : a[last.val[k]] = k
        /\ mul(last.val, a) = identity
        /\ invert(a) = last.val

C3_Witness ==
    /\ last.name = "invert"
    /\ a # last.val

\* In normal form each cycle begins with its highest element and the cycles
\* are ordered by that element.
IsNormalForm(dec) ==
    LET cs == Cycles(dec)
    IN  /\ \A c \in 1 .. Len(cs) : cs[c][1] = Max(Elements(cs[c]))
        /\ \A c \in 1 .. Len(cs) - 1 : cs[c][1] < cs[c + 1][1]

\* C4: a call of normalize() completes and leaves the decomposition in the
\* canonical form (each cycle rotated to begin with its highest element, the
\* cycles ordered by that element), so that two decompositions of the same
\* permutation compare equal afterwards.
C4_NormalizeCanonical ==
    last.name = "normalize" => (pc # "panic" /\ IsNormalForm(d))

\* C5: in the decomposition built from a table each cycle is listed beginning
\* with its seed (the lowest element not in an earlier cycle) followed by its
\* successors in order; [1,3,2,0] yields enumeration [0,1,3,2], starts [0,3].
C5_SeedFirst ==
    last.name = "from_table" =>
        LET cs == Cycles(d)
        IN  /\ \A c \in 1 .. Len(cs) :
                 LET earlier == UNION {Elements(cs[e]) : e \in 1 .. c - 1}
                 IN  /\ cs[c][1] = Min(Idx \ earlier)
                     /\ \A m \in 1 .. Len(cs[c]) - 1 : cs[c][m + 1] = a[cs[c][m]]
            /\ (N = 4 /\ a = [k \in 0 .. 3 |-> <<1, 3, 2, 0>>[k + 1]]) =>
                 /\ d.enumeration = [k \in 0 .. 3 |-> <<0, 1, 3, 2>>[k + 1]]
                 /\ d.starts = <<0, 3>>

\* C6: cycle_type(D)[k] is the number of cycles of length k+1 of the table D
\* was built from, the sum of (k+1) * cycle_type(D)[k] is N, identity() gives
\* [N,0,...,0] and cycle() gives [0,...,0,1].
C6_CycleType ==
    last.name = "cycle_type" =>
        /\ DOMAIN last.val = Idx
        /\ \A k \in Idx : last.val[k] = NumCyclesOfLength(a, k + 1)
        /\ WeightedSum(last.val, 0) = N
        /\ a = identity => last.val = [k \in Idx |-> IF k = 0 THEN N ELSE 0]
        /\ a = cycle => last.val = [k \in Idx |-> IF k = N - 1 THEN 1 ELSE 0]

C6_Witness ==
    /\ last.name = "cycle_type"
    /\ \E k \in Idx : last.val[k] >= 2
    /\ \E k \in Idx : k >= 1 /\ last.val[k] >= 1

\* C7: every table reachable through identity(), cycle(), swap(i, j) with
\* i, j < N, multiplication, invert() and conversion to a decomposition and
\* back is a bijection on [0,N).
C7_Bijection == IsBijection(a) /\ IsBijection(b)

C7_Witness ==
    /\ last.name = "to_table"
    /\ N >= 3
    /\ NonIdentity(a) /\ NonIdentity(b)
    /\ a # b /\ a # cycle /\ a # invert(a)

\* C8: swap(x, y) panics if and only if x >= N or y >= N; otherwise it
\* returns the table that maps x to y, y to x and every other k to itself.
C8_Swap ==
    last.name = "swap" =>
        LET x == last.val[1]
            y == last.val[2]
        IN  /\ pc = "panic" <=> (x >= N \/ y >= N)
            /\ pc # "panic" =>
                 a = [k \in Idx |-> IF k = x THEN y ELSE IF k = y THEN x ELSE k]

C8_Witness ==
    /\ last.name = "swap"
    /\ pc # "panic"
    /\ last.val[1] # last.val[2]
    /\ N >= 3

\* C9: the decomposition built from a table of size N >= 1 satisfies the
\* partition invariant: enumeration holds every element of [0,N) exactly
\* once, starts is strictly increasing from starts[0] = 0 with every entry
\* below N, and the cycles yielded by iteration are non-empty, disjoint and
\* of total length N.
C9_Partition ==
    (last.name = "from_table" /\ N >= 1) =>
        /\ IsBijection(d.enumeration)
        /\ Len(d.starts) >= 1
        /\ d.starts[1] = 0
        /\ \A c \in 1 .. Len(d.starts) : d.starts[c] < N
        /\ \A c \in 1 .. Len(d.starts) - 1 : d.starts[c] < d.starts[c + 1]
        /\ LET cs == Cycles(d)
           IN  /\ \A c \in 1 .. Len(cs) : Len(cs[c]) >= 1
               /\ \A c, e \in 1 .. Len(cs) :
                    c # e => Elements(cs[c]) \cap Elements(cs[e]) = {}
               /\ SumLen(cs, 1) = N

C9_Witness ==
    /\ last.name = "from_table"
    /\ Len(d.starts) >= 2
    /\ \E c \in 1 .. Len(d.starts) : Len(Cycles(d)[c]) >= 2
    /\ \E c \in 1 .. Len(d.starts) : Len(Cycles(d)[c]) = 1

\* The safety half of C10: the write cursor is within enumeration before each
\* write, the index about to be marked is not marked yet, and on exit the
\* cursor is N with every index marked.
TraversalSafe ==
    /\ pc = "walk" => (i < N /\ j \in Idx /\ ~used[j])
    /\ last.name = "from_table" => (i = N /\ \A k \in Idx : used[k])

\* C10: the orbit traversal terminates: each inner walk returns to its seed,
\* the outer loop ends when no unvisited index remains, the write cursor
\* never reaches N before a write, and on exit i = N with every index marked
\* exactly once.
C10_Terminates ==
    /\ []TraversalSafe
    /\ (pc = "walk") ~> (pc = "find")
    /\ (pc \in {"find", "walk"}) ~> (pc = "built")

C10_Witness ==
    /\ last.name = "from_table"
    /\ pc = "built"
    /\ i = N /\ N >= 3
    /\ Len(starts) >= 2 /\ Len(starts) < N

====
